---- MODULE Spec2Model ----
(***************************************************************************)
(* MedUX core: the custom model fields (medux/core/fields.py), the model   *)
(* declarations that use them (medux/core/models.py) and the admin         *)
(* registrations (medux/core/admin.py).                                    *)
(*                                                                         *)
(* Text values are sequences of one-character strings.  Six                *)
(* specifications share the module:                                        *)
(*   SpecFields  field construction and field validation                   *)
(*   SpecLoad    the database load path of Base64TextField                 *)
(*   SpecRefs    the Reference table and Reference.validate_unique         *)
(*   SpecIdent   the Identifier table: submissions and updates             *)
(*   SpecDelete  the tables joined by foreign keys: creation and deletion  *)
(*   Spec        application start-up (model import, admin import) and the *)
(*               create / update operations on stored resources            *)
(***************************************************************************)
EXTENDS Integers, Sequences, FiniteSets, TLC

VARIABLES field, call, value, errors, cleaned

fvars == <<field, call, value, errors, cleaned>>

VARIABLES text, stored, loaded, phase

lvars == <<text, stored, loaded, phase>>

\* application start-up and the Resource table
VARIABLES pc, id_fields, admin_pc, registry, db, saved_at, now, created_log, last_op, last_error

avars == <<pc, id_fields, admin_pc, registry, db, saved_at, now, created_log, last_op, last_error>>

\* the Reference table and one validate_unique call
VARIABLES refs, instance, exclude, raised, rphase

rvars == <<refs, instance, exclude, raised, rphase>>

\* the Identifier table and the outcome of the last submission
VARIABLES idents, iresult

ivars == <<idents, iresult>>

\* the tables joined by foreign keys and the outcome of the last deletion
VARIABLES store, last_del

svars == <<store, last_del>>

\* the state of the two parts above
xvars == <<ivars, svars>>

vars == <<fvars, lvars, avars, rvars, xvars>>

(***************************************************************************)
(* Bounds of the model                                                     *)
(***************************************************************************)
\* longest body of a generated text value (characters of BodyAlphabet)
MaxBody == 3
\* a max_length a caller passes to a field constructor
CallerMaxLength == 10
\* longest text whose encoding is stored in a Base64TextField column
MaxText == 3
\* latest time of the clock
MaxTime == 2
\* most records created and stored in one process
MaxCreates == 2
\* most stored Reference rows
MaxRefs == 2
\* most stored Identifier rows
MaxIdents == 3
\* most rows stored at a time in the tables joined by foreign keys
MaxRows == 3

(***************************************************************************)
(* Program constants                                                       *)
(***************************************************************************)
\* fields.py:108  kwargs['max_length'] = 255
UriMaxLength == 255
\* fields.py:132  kwargs['max_length'] = 64
CodeMaxLength == 64
\* fields.py:156  kwargs['max_length'] = 64
IdMaxLength == 64

(***************************************************************************)
(* Text helpers                                                            *)
(***************************************************************************)
Digits == {"0", "1", "2", "3", "4", "5", "6", "7", "8", "9"}
D02 == {"0", "1", "2"}
D19 == Digits \ {"0"}

\* the characters generated bodies are made of: a digit of [0-2] that is not
\* in [1-9], one that is in both, one of [1-9] only, and the dot
BodyAlphabet == {"0", "1", "3", "."}

SeqsUpTo(S, n) == UNION {[1..k -> S] : k \in 0..n}

Repeat(c, n) == [i \in 1..n |-> c]

\* "http://localhost/": a URL prefix; anything without white space may follow
UrlPrefix == <<"h","t","t","p",":","/","/","l","o","c","a","l","h","o","s","t","/">>

Bodies == SeqsUpTo(BodyAlphabet, MaxBody)

\* lengths of the padding appended to a body, chosen so that the values sit
\* on both sides of each fixed maximum length
PadLens == {0, CodeMaxLength, UriMaxLength - Len(UrlPrefix), UriMaxLength}

Draft == <<"d","r","a","f","t">>
Active == <<"a","c","t","i","v","e">>
Retired == <<"r","e","t","i","r","e","d">>
Unknown == <<"u","n","k","n","o","w","n">>
Bogus == <<"b","o","g","u","s">>

\* models.py:101-106 (the stored values of the choice pairs)
PUBLICATION_STATUS == {Draft, Active, Retired, Unknown}

\* models.py:183-189
IDENTIFIER_USE == {<<"u","s","u","a","l">>, <<"o","f","f","i","c","i","a","l">>,
                   <<"t","e","m","p">>, <<"s","e","c","o","n","d","a","r","y">>,
                   <<"o","l","d">>}

\* the text values validation is tried on
Values ==
    {p \o b \o Repeat("a", n) : p \in {<<>>, UrlPrefix}, b \in Bodies, n \in PadLens}
    \cup PUBLICATION_STATUS \cup {Bogus, <<"o","l","d">>}

(***************************************************************************)
(* Keyword arguments: a function from argument names to values             *)
(***************************************************************************)
NoKwargs == <<>>

\* dict.get(k, d)
Get(kwargs, k, d) == IF k \in DOMAIN kwargs THEN kwargs[k] ELSE d

\* kwargs[k] = v
SetItem(kwargs, k, v) ==
    [x \in (DOMAIN kwargs) \cup {k} |-> IF x = k THEN v ELSE kwargs[x]]

\* kwargs.setdefault(k, v)
SetDefault(kwargs, k, v) == IF k \in DOMAIN kwargs THEN kwargs ELSE SetItem(kwargs, k, v)

\* the keyword arguments a caller passes to a field constructor
CallerKwargs ==
    {ml @@ ch @@ bl :
        ml \in {NoKwargs, "max_length" :> CallerMaxLength, "max_length" :> 2 * UriMaxLength},
        ch \in {NoKwargs, "choices" :> PUBLICATION_STATUS},
        bl \in {NoKwargs, "blank" :> TRUE}}

(***************************************************************************)
(* Validators                                                              *)
(***************************************************************************)
MsgUrl == "Enter a valid URL."
MsgOid == "Given string is no OID"
MsgMaxLength == "Ensure this value has at most max_length characters."
MsgChoice == "Value is not a valid choice."
MsgBlank == "This field cannot be blank."

URLValidator == [kind |-> "URLValidator", limit |-> 0, message |-> MsgUrl]
MaxLengthValidator(n) == [kind |-> "MaxLengthValidator", limit |-> n, message |-> MsgMaxLength]
OidValidator == [kind |-> "RegexValidator", limit |-> 0, message |-> MsgOid]

\* s[i..j] is (\.[1-9]\d*)+
OidGroups(s, i, j) ==
    /\ i < j
    /\ s[i] = "."
    /\ \A k \in i..j :
          IF s[k] = "." THEN k < j /\ s[k + 1] \in D19 ELSE s[k] \in Digits

\* s[i..j] is [0-2](\.[1-9]\d*)+
OidMatchAt(s, i, j) == i < j /\ s[i] \in D02 /\ OidGroups(s, i + 1, j)

\* re.search: some part of s matches the pattern
RegexSearch(s) ==
    \E i \in 1..Len(s) : s[i] \in D02 /\ \E j \in (i + 1)..Len(s) : OidMatchAt(s, i, j)

\* the whole of s matches the pattern
IsOid(s) == OidMatchAt(s, 1, Len(s))

IsPrefixAt(p, s, i) ==
    i + Len(p) - 1 <= Len(s) /\ \A k \in 1..Len(p) : s[i + k - 1] = p[k]

SchemeSep == <<":", "/", "/">>
UrlSchemes == {<<"h","t","t","p">>, <<"h","t","t","p","s">>, <<"f","t","p">>, <<"f","t","p","s">>}
LocalHost == <<"l","o","c","a","l","h","o","s","t">>
WhiteSpace == {" ", "\t", "\n"}

\* value.split('://')[0]
SchemeOf(s) ==
    IF \E i \in 1..Len(s) : IsPrefixAt(SchemeSep, s, i)
    THEN LET i == CHOOSE i \in 1..Len(s) :
                    /\ IsPrefixAt(SchemeSep, s, i)
                    /\ \A k \in 1..(i - 1) : ~IsPrefixAt(SchemeSep, s, k)
         IN SubSeq(s, 1, i - 1)
    ELSE s

\* URLValidator.__call__: the scheme is one of the accepted schemes and the
\* value matches scheme://host[/?#]path.  Of the host alternatives of the
\* pattern only "localhost" is modelled: it is the only host the generated
\* values carry.  The generated values carry no upper-case letter, so the
\* lower-casing of the scheme leaves them as they are.
URLValid(s) ==
    LET sch == SchemeOf(s)
        h == Len(sch) + Len(SchemeSep) + 1
        r == h + Len(LocalHost)
    IN /\ sch \in UrlSchemes
       /\ IsPrefixAt(SchemeSep, s, Len(sch) + 1)
       /\ IsPrefixAt(LocalHost, s, h)
       /\ r <= Len(s) =>
            /\ s[r] \in {"/", "?", "#"}
            /\ \A k \in r..Len(s) : s[k] \notin WhiteSpace

\* the errors one validator raises on s
RunValidator(v, s) ==
    CASE v.kind = "URLValidator" -> IF URLValid(s) THEN {} ELSE {v.message}
      [] v.kind = "RegexValidator" -> IF RegexSearch(s) THEN {} ELSE {v.message}
      [] v.kind = "MaxLengthValidator" -> IF Len(s) > v.limit THEN {v.message} ELSE {}

(***************************************************************************)
(* Field construction (fields.py)                                          *)
(***************************************************************************)
NOT_PROVIDED == "NOT_PROVIDED"
None == "None"

\* the uuid4() tokens
Uuids == {"uuid-a", "uuid-b"}

\* models.Field.__init__, reached through every super().__init__(**kwargs)
Field_init(cls, kwargs) ==
    [cls |-> cls,
     max_length |-> Get(kwargs, "max_length", 0),
     choices |-> Get(kwargs, "choices", {}),
     blank |-> Get(kwargs, "blank", FALSE),
     default |-> Get(kwargs, "default", NOT_PROVIDED),
     default_validators |-> <<>>,
     validators |-> Get(kwargs, "validators", <<>>),
     value_set |-> None,
     to |-> Get(kwargs, "to", None),
     on_delete |-> Get(kwargs, "on_delete", None),
     referred_object |-> None]

\* models.CharField.__init__: the field validates its max_length
CharField_init(cls, kwargs) ==
    LET f == Field_init(cls, kwargs)
    IN [f EXCEPT !.validators = Append(@, MaxLengthValidator(f.max_length))]

\* models.URLField.__init__: a CharField of max_length 200 unless given,
\* with the URL validator as its default validator
URLField_init(cls, kwargs) ==
    [CharField_init(cls, SetDefault(kwargs, "max_length", 200))
        EXCEPT !.default_validators = <<URLValidator>>]

\* as UriField.__init__, had it used kwargs.setdefault('max_length', 255)
UriField_init_setdefault(cls, kwargs) ==
    URLField_init(cls, SetDefault(kwargs, "max_length", UriMaxLength))

\* UriField.__init__
UriField_init(cls, kwargs) ==
    URLField_init(cls, SetItem(kwargs, "max_length", UriMaxLength))

UriField(kwargs) == UriField_init("UriField", kwargs)

\* OidField.__init__
OidField(kwargs) ==
    UriField_init("OidField", SetItem(kwargs, "validators", <<OidValidator>>))

\* CodeField.__init__
CodeField(value_set, kwargs) ==
    [CharField_init("CodeField", SetItem(kwargs, "max_length", CodeMaxLength))
        EXCEPT !.value_set = value_set]

\* IdField.__init__; uuid is the value the call uuid4() returns while the
\* field is constructed
IdField(kwargs, uuid) ==
    CharField_init("IdField",
        SetItem(SetItem(kwargs, "max_length", IdMaxLength), "default", uuid))

\* as ReferenceField.__init__, had it bound the key to the named target
ReferenceField_to_target(to, on_delete, kwargs) ==
    [Field_init("ReferenceField",
                SetItem(SetItem(kwargs, "to", to), "on_delete", on_delete))
        EXCEPT !.referred_object = to]

\* ReferenceField.__init__
ReferenceField(to, on_delete, kwargs) ==
    [Field_init("ReferenceField",
                SetItem(SetItem(kwargs, "to", "Reference"), "on_delete", on_delete))
        EXCEPT !.referred_object = to]

\* models.py:255  ValueSet.status = CodeField("PublicationStatus")
ValueSet_status == CodeField("PublicationStatus", NoKwargs)

\* as StructureDefinition.status, had it named the value set as ValueSet.status
\* does
StructureDefinition_status_by_name == CodeField("PublicationStatus", NoKwargs)

\* models.py:170  StructureDefinition.status = CodeField(choices=PUBLICATION_STATUS)
StructureDefinition_status == CodeField(None, "choices" :> PUBLICATION_STATUS)

\* models.py:199  Identifier.use = CodeField(choices=IDENTIFIER_USE)
Identifier_use == CodeField(None, "choices" :> IDENTIFIER_USE)

\* models.py:210  Identifier.system = UriField(null=False)
Identifier_system == UriField(NoKwargs)

\* models.py:29  Coding.system = UriField(blank=True)
Coding_system == UriField("blank" :> TRUE)

\* models.py:89  Resource.language = CodeField(blank=True)
Resource_language == CodeField(None, "blank" :> TRUE)

\* the text fields of models.py that values are validated on, by declaration
DeclaredFields ==
    [site \in {"ValueSet.status", "StructureDefinition.status", "Identifier.use",
               "Identifier.system", "Coding.system", "Resource.language"} |->
        CASE site = "ValueSet.status" -> ValueSet_status
          [] site = "StructureDefinition.status" -> StructureDefinition_status
          [] site = "Identifier.use" -> Identifier_use
          [] site = "Identifier.system" -> Identifier_system
          [] site = "Coding.system" -> Coding_system
          [] site = "Resource.language" -> Resource_language]

(***************************************************************************)
(* Field validation: Model.clean_fields on one field                       *)
(***************************************************************************)
EMPTY_VALUES == {<<>>}

\* Field.run_validators: every validator runs and the errors are collected
RunValidators(f, s) ==
    IF s \in EMPTY_VALUES THEN {}
    ELSE LET vs == f.default_validators \o f.validators
         IN UNION {RunValidator(vs[i], s) : i \in DOMAIN vs}

\* Field.validate: the first failing check raises
Validate(f, s) ==
    IF f.choices # {} /\ s \notin EMPTY_VALUES /\ s \notin f.choices THEN {MsgChoice}
    ELSE IF ~f.blank /\ s \in EMPTY_VALUES THEN {MsgBlank}
    ELSE {}

\* clean_fields: a blank field skips an empty value; otherwise Field.clean
\* validates and, when that raised nothing, runs the validators
FieldClean(f, s) ==
    IF f.blank /\ s \in EMPTY_VALUES THEN {}
    ELSE IF Validate(f, s) # {} THEN Validate(f, s)
    ELSE RunValidators(f, s)

(***************************************************************************)
(* SpecFields: construct a field, validate values on it                    *)
(***************************************************************************)
OnDeletes == {"CASCADE", "PROTECT", "SET_NULL"}
\* models.py:217, 390, 392
ReferenceTargets == {"Organisation", "Organization|Practitioner", "class Organisation"}

\* A run constructs fields and then follows one value through validation:
\* the outcome of validation depends on the field and the value alone.
\* call records where the field was constructed and the arguments given.
Call(site, args) == [site |-> site, args |-> args]

DeclareModelField ==
    /\ ~cleaned
    /\ \E site \in DOMAIN DeclaredFields :
          /\ field' = DeclaredFields[site]
          /\ call' = Call(site, NoKwargs)
    /\ UNCHANGED <<value, errors, cleaned>>
    /\ UNCHANGED <<lvars, avars, rvars, xvars>>

NewUriField ==
    /\ ~cleaned
    /\ \E kw \in CallerKwargs :
          /\ field' = UriField(kw)
          /\ call' = Call("UriField", kw)
    /\ UNCHANGED <<value, errors, cleaned>>
    /\ UNCHANGED <<lvars, avars, rvars, xvars>>

NewOidField ==
    /\ ~cleaned
    /\ \E kw \in CallerKwargs :
          /\ field' = OidField(kw)
          /\ call' = Call("OidField", kw)
    /\ UNCHANGED <<value, errors, cleaned>>
    /\ UNCHANGED <<lvars, avars, rvars, xvars>>

NewCodeField ==
    /\ ~cleaned
    /\ \E kw \in CallerKwargs, vs \in {None, "PublicationStatus"} :
          /\ field' = CodeField(vs, kw)
          /\ call' = Call("CodeField", kw)
    /\ UNCHANGED <<value, errors, cleaned>>
    /\ UNCHANGED <<lvars, avars, rvars, xvars>>

NewIdField ==
    /\ ~cleaned
    /\ \E kw \in CallerKwargs, u \in Uuids :
          /\ field' = IdField(kw, u)
          /\ call' = Call("IdField", kw)
    /\ UNCHANGED <<value, errors, cleaned>>
    /\ UNCHANGED <<lvars, avars, rvars, xvars>>

NewReferenceField ==
    /\ ~cleaned
    /\ \E to \in ReferenceTargets, od \in OnDeletes, nl \in {NoKwargs, "null" :> TRUE} :
          /\ field' = ReferenceField(to, od, nl)
          /\ call' = Call("ReferenceField", ("to" :> to) @@ ("on_delete" :> od) @@ nl)
    /\ UNCHANGED <<value, errors, cleaned>>
    /\ UNCHANGED <<lvars, avars, rvars, xvars>>

\* full_clean validates a text value on the field
Clean ==
    /\ ~cleaned
    /\ field.cls # "ReferenceField"
    /\ \E s \in Values :
        /\ value' = s
        /\ errors' = FieldClean(field, s)
    /\ cleaned' = TRUE
    /\ UNCHANGED <<field, call>>
    /\ UNCHANGED <<lvars, avars, rvars, xvars>>

NextFields ==
    \/ DeclareModelField
    \/ NewUriField
    \/ NewOidField
    \/ NewCodeField
    \/ NewIdField
    \/ NewReferenceField
    \/ Clean

(***************************************************************************)
(* Claims on field validation (SpecFields)                                 *)
(***************************************************************************)
Accepted == cleaned /\ errors = {}
Rejected == cleaned /\ errors # {}

\* C1: an OidField accepts a value only if the value as a whole is an OID
\* (stated for the non-empty values, which no blank rule lets through)
C1_OidFieldAcceptsOnlyOids ==
    (Accepted /\ field.cls = "OidField" /\ value # <<>>) => IsOid(value)

\* C3: every validated ValueSet.status is one of draft, active, retired,
\* unknown
C3_ValueSetStatusRestricted ==
    (Accepted /\ call.site = "ValueSet.status") => value \in PUBLICATION_STATUS

\* C4: validating a StructureDefinition.status that is none of draft, active,
\* retired, unknown is rejected
C4_StructureDefinitionStatusRestricted ==
    (cleaned /\ call.site = "StructureDefinition.status" /\ value \notin PUBLICATION_STATUS)
        => Rejected

C4_Witness ==
    /\ cleaned
    /\ call.site = "StructureDefinition.status"
    /\ value = Bogus
    /\ errors = {MsgChoice}

FixedMaxLength(cls) ==
    CASE cls = "IdField" -> IdMaxLength
      [] cls = "CodeField" -> CodeMaxLength
      [] cls \in {"UriField", "OidField"} -> UriMaxLength

LengthFixing == {"IdField", "CodeField", "UriField", "OidField"}

\* C6: an IdField or CodeField has max_length 64 and a UriField or OidField
\* has max_length 255 whatever max_length the caller passes, and a longer
\* value is rejected
C6_FixedMaxLength ==
    field.cls \in LengthFixing =>
        /\ field.max_length = FixedMaxLength(field.cls)
        /\ (cleaned /\ Len(value) > FixedMaxLength(field.cls)) => Rejected

C6_Witness ==
    /\ field.cls = "UriField"
    /\ "max_length" \in DOMAIN call.args
    /\ call.args["max_length"] > UriMaxLength
    /\ cleaned
    /\ Len(value) = UriMaxLength + 1
    /\ errors = {MsgMaxLength}

\* C7: a ReferenceField's key points at Reference whatever target is named;
\* the target is kept in referred_object and on_delete is passed through
C7_ReferenceFieldBindsReference ==
    field.cls = "ReferenceField" =>
        /\ field.to = "Reference"
        /\ field.referred_object = call.args["to"]
        /\ field.on_delete = call.args["on_delete"]

C7_Witness ==
    /\ field.cls = "ReferenceField"
    /\ call.args["to"] = "Organization|Practitioner"
    /\ call.args["on_delete"] = "SET_NULL"
    /\ field.to = "Reference"
    /\ field.referred_object = "Organization|Practitioner"

\* C12: an OidField constructed without choices accepts every value that as
\* a whole is an OID: no validator the field runs, the inherited ones
\* included, raises on it
C12_OidFieldAcceptsEveryOid ==
    (cleaned /\ field.cls = "OidField" /\ "choices" \notin DOMAIN call.args /\ IsOid(value))
        => Accepted

(***************************************************************************)
(* Base64TextField (fields.py:37-48)                                       *)
(***************************************************************************)
\* the code points texts are made of: one, two and three bytes of UTF-8
CodePoints == {65, 233, 8364}

Texts == SeqsUpTo(CodePoints, MaxText)

\* str.encode("utf-8") of one code point
Utf8Bytes(c) ==
    IF c < 128 THEN <<c>>
    ELSE IF c < 2048 THEN <<192 + (c \div 64), 128 + (c % 64)>>
    ELSE <<224 + (c \div 4096), 128 + ((c \div 64) % 64), 128 + (c % 64)>>

RECURSIVE Utf8Encode(_)
Utf8Encode(t) == IF t = <<>> THEN <<>> ELSE Utf8Bytes(Head(t)) \o Utf8Encode(Tail(t))

IsCont(b) == b >= 128 /\ b < 192

UnicodeDecodeError == <<-1>>

\* bytes.decode("utf-8"), strict: the code points, or UnicodeDecodeError
RECURSIVE Utf8Decode(_)
Utf8Decode(b) ==
    IF b = <<>> THEN <<>>
    ELSE LET b1 == b[1]
             n == IF b1 < 128 THEN 1
                  ELSE IF b1 >= 194 /\ b1 < 224 THEN 2
                  ELSE IF b1 >= 224 /\ b1 < 240 THEN 3
                  ELSE 0
             ok == /\ n > 0
                   /\ Len(b) >= n
                   /\ \A k \in 2..n : IsCont(b[k])
                   /\ (n = 3 /\ b1 = 224) => b[2] >= 160
             c == CASE n = 1 -> b1
                    [] n = 2 -> (b1 - 192) * 64 + (b[2] - 128)
                    [] n = 3 -> (b1 - 224) * 4096 + (b[2] - 128) * 64 + (b[3] - 128)
                    [] OTHER -> 0
         IN IF ~ok THEN UnicodeDecodeError
            ELSE LET rest == Utf8Decode(SubSeq(b, n + 1, Len(b)))
                 IN IF rest = UnicodeDecodeError THEN UnicodeDecodeError
                    ELSE <<c>> \o rest

B64Alphabet ==
    <<"A","B","C","D","E","F","G","H","I","J","K","L","M","N","O","P",
      "Q","R","S","T","U","V","W","X","Y","Z","a","b","c","d","e","f",
      "g","h","i","j","k","l","m","n","o","p","q","r","s","t","u","v",
      "w","x","y","z","0","1","2","3","4","5","6","7","8","9","+","/">>

B64Char(n) == B64Alphabet[n + 1]
B64Index(c) == (CHOOSE i \in DOMAIN B64Alphabet : B64Alphabet[i] = c) - 1

\* base64.b64encode: how a stored value is made from bytes
B64Encode(b) ==
    LET n == Len(b)
        at(i) == IF i <= n THEN b[i] ELSE 0
        quad(q) ==
            LET w == at(3 * q + 1) * 65536 + at(3 * q + 2) * 256 + at(3 * q + 3)
            IN <<B64Char(w \div 262144),
                 B64Char((w \div 4096) % 64),
                 IF 3 * q + 2 <= n THEN B64Char((w \div 64) % 64) ELSE "=",
                 IF 3 * q + 3 <= n THEN B64Char(w % 64) ELSE "=">>
        RECURSIVE quads(_)
        quads(q) == IF 3 * q >= n THEN <<>> ELSE quad(q) \o quads(q + 1)
    IN quads(0)

BinasciiError == <<-2>>

\* base64.b64decode(value): characters outside the alphabet are discarded,
\* the data characters are decoded four at a time, and a last group of two
\* or three data characters needs its padding
base64_b64decode(s) ==
    LET d == SelectSeq(s, LAMBDA c : \E i \in DOMAIN B64Alphabet : B64Alphabet[i] = c)
        pads == Cardinality({i \in DOMAIN s : s[i] = "="})
        n == Len(d)
        k == n % 4
        six(i) == IF i <= n THEN B64Index(d[i]) ELSE 0
        group(q) ==
            LET w == six(4 * q + 1) * 262144 + six(4 * q + 2) * 4096
                     + six(4 * q + 3) * 64 + six(4 * q + 4)
                m == IF 4 * q + 4 <= n THEN 3 ELSE k - 1
            IN SubSeq(<<w \div 65536, (w \div 256) % 256, w % 256>>, 1, m)
        RECURSIVE groups(_)
        groups(q) == IF 4 * q >= n THEN <<>> ELSE group(q) \o groups(q + 1)
    IN IF k = 1 \/ (k = 2 /\ pads < 2) \/ (k = 3 /\ pads < 1) THEN BinasciiError
       ELSE groups(0)

\* what a call returns or raises
Return(v) == [kind |-> "str", val |-> v]
ReturnNone == [kind |-> "None", val |-> <<>>]
Raise(e) == [kind |-> e, val |-> <<>>]
NotLoaded == [kind |-> "-", val |-> <<>>]

\* a column value: NULL or a string
Null == [null |-> TRUE, str |-> <<>>]
Str(s) == [null |-> FALSE, str |-> s]

\* Base64TextField.from_db_value(value)
from_db_value(v) ==
    IF v.null THEN ReturnNone
    ELSE LET b == base64_b64decode(v.str)
         IN IF b = BinasciiError THEN Raise("binascii.Error")
            ELSE LET t == Utf8Decode(b)
                 IN IF t = UnicodeDecodeError THEN Raise("UnicodeDecodeError")
                    ELSE Return(t)

\* fields.py:40-41: a static method of the one parameter `value`
from_db_value_params == <<"value">>

\* the arguments of the framework's converter call on a loaded column:
\* converter(value, expression, connection); older framework versions pass
\* a fourth argument, which leaves the outcome of the call the same
ConverterArgs == <<"value", "expression", "connection">>

\* calling the static method with the given positional arguments
CallFromDbValue(args, v) ==
    IF Len(args) # Len(from_db_value_params) THEN Raise("TypeError")
    ELSE from_db_value(v)

(***************************************************************************)
(* SpecLoad: a column value is stored, then read                           *)
(***************************************************************************)
\* the stored encoding of a text, and the same with its last character lost
StoredFor(t) ==
    LET e == B64Encode(Utf8Encode(t))
    IN {Null, Str(e)} \cup (IF e = <<>> THEN {} ELSE {Str(SubSeq(e, 1, Len(e) - 1))})

\* the load path: the query compiler applies the field's converter
LoadRow ==
    /\ phase = "stored"
    /\ loaded' = CallFromDbValue(ConverterArgs, stored)
    /\ phase' = "loaded"
    /\ UNCHANGED <<text, stored>>
    /\ UNCHANGED <<fvars, avars, rvars, xvars>>

\* a direct call Base64TextField.from_db_value(value)
DirectCall ==
    /\ phase = "stored"
    /\ loaded' = CallFromDbValue(<<"value">>, stored)
    /\ phase' = "called"
    /\ UNCHANGED <<text, stored>>
    /\ UNCHANGED <<fvars, avars, rvars, xvars>>

NextLoad == LoadRow \/ DirectCall

\* C5: reading the column through the load path yields t for a stored value
\* that is the base64 encoding of the UTF-8 text t, and None for NULL
C5_LoadYieldsText ==
    phase = "loaded" =>
        /\ stored = Null => loaded = ReturnNone
        /\ stored = Str(B64Encode(Utf8Encode(text))) => loaded = Return(text)

\* the direct call decodes what the load path cannot
DirectCallDecodes ==
    phase = "called" =>
        /\ stored = Null => loaded = ReturnNone
        /\ stored = Str(B64Encode(Utf8Encode(text))) => loaded = Return(text)

(***************************************************************************)
(* Application start-up: models.py is imported, then admin.py              *)
(***************************************************************************)
\* the model classes models.py defines
ModelNames ==
    {"Coding", "Period", "Meta", "Resource", "DomainResource", "Element",
     "Extension", "ContactPoint", "ContactDetail", "StructureDefinition",
     "Identifier", "Organisation", "Reference", "CodeableConcept",
     "UsageContext", "ValueSet", "HumanName", "Address", "Attachment", "Patient"}

\* models.py:74-75
AbstractModels == {"Meta"}

\* as admin.py:23-32, with one more model registered
AdminRegistrations_and_Patient ==
    <<"Resource", "DomainResource", "Coding", "Period", "StructureDefinition",
      "Identifier", "ValueSet", "ContactDetail", "ContactPoint", "Extension", "Patient">>

\* admin.py:23-32, in order
AdminRegistrations ==
    <<"Resource", "DomainResource", "Coding", "Period", "StructureDefinition",
      "Identifier", "ValueSet", "ContactDetail", "ContactPoint", "Extension">>

\* admin.site.register(model), with no admin class given
AdminRegister(reg, model) ==
    IF model \notin ModelNames THEN [registry |-> reg, error |-> "NameError"]
    ELSE IF model \in AbstractModels THEN [registry |-> reg, error |-> "ImproperlyConfigured"]
    ELSE IF model \in DOMAIN reg THEN [registry |-> reg, error |-> "AlreadyRegistered"]
    ELSE [registry |-> SetItem(reg, model, "ModelAdmin"), error |-> None]

\* models.py:63  versionId = IdField(primary_key=True)
Meta_versionId(uuid) == IdField("primary_key" :> TRUE, uuid)

\* models.py:79  id = IdField(blank=True)
Resource_id(uuid) == IdField("blank" :> TRUE, uuid)

\* the class bodies of models.py run: each IdField(...) call draws its
\* uuid4(), and no two calls of uuid4() return the same token
ImportModels ==
    /\ pc = "start"
    /\ \E u1 \in Uuids, u2 \in Uuids :
          /\ u1 # u2
          /\ id_fields' = [versionId |-> Meta_versionId(u1), id |-> Resource_id(u2)]
    /\ pc' = "admin"
    /\ UNCHANGED <<admin_pc, registry, db, saved_at, now, created_log, last_op, last_error>>
    /\ UNCHANGED <<fvars, lvars, rvars, xvars>>

\* the next admin.site.register(...) statement of admin.py runs
ImportAdmin ==
    /\ pc = "admin"
    /\ LET out == AdminRegister(registry, AdminRegistrations[admin_pc + 1])
       IN IF out.error # None
          THEN /\ pc' = "failed"
               /\ last_error' = out.error
               /\ UNCHANGED <<admin_pc, registry>>
          ELSE /\ registry' = out.registry
               /\ admin_pc' = admin_pc + 1
               /\ pc' = IF admin_pc + 1 = Len(AdminRegistrations) THEN "ready" ELSE "admin"
               /\ UNCHANGED last_error
    /\ UNCHANGED <<id_fields, db, saved_at, now, created_log, last_op>>
    /\ UNCHANGED <<fvars, lvars, rvars, xvars>>

(***************************************************************************)
(* The Resource table (models.py:58-89)                                    *)
(***************************************************************************)
Omitted == "omitted"
NoTime == 0 - 1
Times == 0..MaxTime

\* the values a caller supplies
SuppliedVersionIds == {"v1"}
SuppliedIds == {"i1"}

\* Field.get_default(): the default when it is not callable
get_default(f) == f.default

\* Model.__init__: a field not given takes the field's default
NewResource(vid, id, created) ==
    [versionId |-> IF vid = Omitted THEN get_default(id_fields.versionId) ELSE vid,
     id |-> IF id = Omitted THEN get_default(id_fields.id) ELSE id,
     created |-> created,
     lastUpdated |-> NoTime]

\* as lastUpdated, had it been declared auto_now_add: only a record that
\* carries no time is given one
lastUpdated_pre_save_add_only(inst, t) ==
    IF inst.lastUpdated = NoTime THEN t ELSE inst.lastUpdated

\* models.py:68  lastUpdated = InstantField(auto_now=True): pre_save stores
\* the current time whatever the record carries
lastUpdated_pre_save(inst, t) == t

\* models.py:66  created = DateTimeField(auto_created=True, editable=False):
\* pre_save stores what the record carries
created_pre_save(inst, t) == inst.created

\* Model.save(): the row with the record's primary key is updated when there
\* is one, and inserted otherwise.  force_insert is the framework's choice to
\* insert a record that is being added under a defaulted primary key.
Model_save(inst, adding, table, t, force_insert) ==
    LET row == [id |-> inst.id,
                created |-> created_pre_save(inst, t),
                lastUpdated |-> lastUpdated_pre_save(inst, t)]
    IN IF row.created = NoTime \/ row.lastUpdated = NoTime
       THEN [db |-> table, error |-> "IntegrityError"]
       ELSE IF adding /\ force_insert /\ inst.versionId \in DOMAIN table
       THEN [db |-> table, error |-> "IntegrityError"]
       ELSE [db |-> SetItem(table, inst.versionId, row), error |-> None]

Tick ==
    /\ pc = "ready"
    /\ now < MaxTime
    /\ now' = now + 1
    /\ UNCHANGED <<pc, id_fields, admin_pc, registry, db, saved_at, created_log, last_op, last_error>>
    /\ UNCHANGED <<fvars, lvars, rvars, xvars>>

\* Resource(...).save() on a new record
Create ==
    /\ pc = "ready"
    /\ Len(created_log) < MaxCreates
    /\ \E vid \in SuppliedVersionIds \cup {Omitted}, id \in SuppliedIds \cup {Omitted},
          created \in {NoTime, now}, force_insert \in BOOLEAN :
        LET inst == NewResource(vid, id, created)
            out == Model_save(inst, TRUE, db, now, force_insert)
        IN /\ created_log' =
                  IF out.error # None THEN created_log
                  ELSE Append(created_log,
                         [omitted |-> {k \in {"versionId", "id"} :
                                          \/ k = "versionId" /\ vid = Omitted
                                          \/ k = "id" /\ id = Omitted},
                          versionId |-> inst.versionId,
                          id |-> inst.id])
           /\ db' = out.db
           /\ last_error' = out.error
           /\ saved_at' = IF out.error = None THEN SetItem(saved_at, inst.versionId, now)
                          ELSE saved_at
           /\ last_op' = "create"
    /\ UNCHANGED <<pc, id_fields, admin_pc, registry, now>>
    /\ UNCHANGED <<fvars, lvars, rvars, xvars>>

\* a stored record is loaded, an editable field is changed, save()
Update ==
    /\ pc = "ready"
    /\ \E vid \in DOMAIN db, id \in SuppliedIds :
        LET inst == [versionId |-> vid, id |-> id,
                     created |-> db[vid].created, lastUpdated |-> db[vid].lastUpdated]
            out == Model_save(inst, FALSE, db, now, FALSE)
        IN /\ db' = out.db
           /\ last_error' = out.error
           /\ saved_at' = IF out.error = None THEN SetItem(saved_at, vid, now) ELSE saved_at
           /\ last_op' = "update"
    /\ UNCHANGED <<pc, id_fields, admin_pc, registry, now, created_log>>
    /\ UNCHANGED <<fvars, lvars, rvars, xvars>>

Next ==
    \/ ImportModels
    \/ ImportAdmin
    \/ Tick
    \/ Create
    \/ Update

(***************************************************************************)
(* The Reference table and Reference.validate_unique (models.py:225-234)   *)
(***************************************************************************)
ReferenceTexts == {<<>>, <<"P","a","t","i","e","n","t","/","1">>}
DisplayTexts == {<<>>, <<"D","r">>}

NoPk == 0

\* a Reference record: pk is NoPk until the record has been given a key
ReferenceRecords(pks) ==
    [pk : pks, adding : BOOLEAN, references : ReferenceTexts, display : DisplayTexts]

\* as Reference.validate_unique, had it kept the inherited check: a record
\* being added under the primary key of a stored row is not unique
Model_validate_unique(self, excl, table) ==
    [raised |-> IF self.adding /\ "pk" \notin excl /\ self.pk \in DOMAIN table
                THEN "ValidationError" ELSE None,
     self |-> self,
     table |-> table]

\* Reference.validate_unique(self, exclude=None): pass
Reference_validate_unique(self, excl, table) ==
    [raised |-> None, self |-> self, table |-> table]

\* a Reference is stored under the next key
SaveReference ==
    /\ Len(refs) < MaxRefs
    /\ \E r \in ReferenceTexts, d \in DisplayTexts :
          refs' = Append(refs, [references |-> r, display |-> d])
    /\ UNCHANGED <<instance, exclude, raised, rphase>>
    /\ UNCHANGED <<fvars, lvars, avars, xvars>>

\* a caller holds a Reference record and an exclude argument
TakeInstance ==
    /\ \E i \in ReferenceRecords({NoPk} \cup DOMAIN refs), e \in {{}, {"pk"}, {"display"}} :
          /\ instance' = i
          /\ exclude' = e
    /\ raised' = None
    /\ rphase' = "pending"
    /\ UNCHANGED refs
    /\ UNCHANGED <<fvars, lvars, avars, xvars>>

\* instance.validate_unique(exclude)
ValidateUnique ==
    /\ rphase = "pending"
    /\ LET out == Reference_validate_unique(instance, exclude, refs)
       IN /\ raised' = out.raised
          /\ instance' = out.self
          /\ refs' = out.table
    /\ rphase' = "validated"
    /\ UNCHANGED exclude
    /\ UNCHANGED <<fvars, lvars, avars, xvars>>

NextRefs == SaveReference \/ TakeInstance \/ ValidateUnique

(***************************************************************************)
(* The Identifier table (models.py:192-217)                                *)
(***************************************************************************)
\* the attributes of Identifier that hold a field instance and so are columns
\* of its table; the foreign keys type, period and assigner stay NULL here
Identifier_columns == {"use", "system"}

\* value = models.CharField: an attribute of the class bound to the field
\* class itself, which every Identifier reads unless it was set on the record
Identifier_value == [class |-> "models.CharField"]

\* the sets of columns declared unique together: Identifier has no Meta and
\* no field with unique=True
Identifier_unique_checks == {}

IdentifierUses == {<<"u","s","u","a","l">>, <<"o","l","d">>}
IdentifierSystems == {UrlPrefix \o <<"1">>, UrlPrefix \o <<"3">>}
IdentifierValues == {<<"1","3">>, <<"3","1">>}

\* the keyword arguments of Identifier(...): use and system, with or without
\* value
IdentifierKwargs ==
    [{"use", "system"} -> IdentifierUses \cup IdentifierSystems]
    \cup [{"use", "system", "value"} -> IdentifierUses \cup IdentifierSystems \cup IdentifierValues]

\* Model.__init__(**kwargs): a keyword that names no field is refused
Model_init(kwargs) ==
    IF \E k \in DOMAIN kwargs : k \notin Identifier_columns
    THEN [error |-> "TypeError", self |-> <<>>]
    ELSE [error |-> None, self |-> kwargs]

\* the row written for a record: its columns
IdentifierRow(self) == [c \in Identifier_columns |-> self[c]]

\* the rows other than pk that agree with row on a set of columns declared
\* unique
UniqueClash(row, pk, table) ==
    \E chk \in Identifier_unique_checks : \E other \in DOMAIN table :
        other # pk /\ \A c \in chk : table[other][c] = row[c]

\* Model.save(): the row is written unless a unique constraint of the table
\* refuses it
Identifier_save(self, pk, table) ==
    IF UniqueClash(IdentifierRow(self), pk, table)
    THEN [error |-> "IntegrityError", table |-> table]
    ELSE [error |-> None, table |-> SetItem(table, pk, IdentifierRow(self))]

\* getattr(record, name) of a record loaded from the table
Identifier_getattr(table, pk, name) ==
    IF name \in Identifier_columns THEN table[pk][name] ELSE Identifier_value

\* Identifier.objects.create(**kwargs)
CreateIdentifier ==
    /\ Len(idents) < MaxIdents
    /\ \E kw \in IdentifierKwargs :
        /\ kw["use"] \in IdentifierUses
        /\ kw["system"] \in IdentifierSystems
        /\ "value" \in DOMAIN kw => kw["value"] \in IdentifierValues
        /\ LET made == Model_init(kw)
               out == IF made.error # None
                      THEN [error |-> made.error, table |-> idents]
                      ELSE Identifier_save(made.self, Len(idents) + 1, idents)
           IN /\ idents' = out.table
              /\ iresult' = [op |-> "create", error |-> out.error]
    /\ UNCHANGED svars
    /\ UNCHANGED <<fvars, lvars, avars, rvars>>

\* record = Identifier.objects.get(pk=pk); record.system = s;
\* record.value = v; record.save()
UpdateIdentifier ==
    /\ \E pk \in DOMAIN idents, s \in IdentifierSystems, v \in IdentifierValues :
        LET self == [use |-> idents[pk]["use"], system |-> s, value |-> v]
            out == Identifier_save(self, pk, idents)
        IN /\ idents' = out.table
           /\ iresult' = [op |-> "update", error |-> out.error]
    /\ UNCHANGED svars
    /\ UNCHANGED <<fvars, lvars, avars, rvars>>

NextIdent == CreateIdentifier \/ UpdateIdentifier

(***************************************************************************)
(* Deletion over the foreign keys of models.py                             *)
(*                                                                         *)
(* A stored record is its primary key and its foreign key columns.  The    *)
(* rows of parent tables and of many-to-many link tables are left out.     *)
(***************************************************************************)
\* the value of a foreign key column that is NULL
NullKey == 0

\* the last deletion: its outcome, the record it was called on, how many
\* records it removed and how many keys it set to NULL
NoDeletion == [outcome |-> "none", model |-> None, pk |-> NullKey, deleted |-> 0, nulled |-> 0]

\* models.ForeignKey(to, on_delete, **kwargs)
ForeignKey(to, on_delete, kwargs) ==
    Field_init("ForeignKey", SetItem(SetItem(kwargs, "to", to), "on_delete", on_delete))

\* a foreign key column: the model declaring it, its name, the model of the
\* records it points at, its on_delete policy and whether it may be NULL
Key(model, name, f, kwargs) ==
    [model |-> model, name |-> name, to |-> f.to, on_delete |-> f.on_delete,
     null |-> Get(kwargs, "null", FALSE)]

ForeignKeyColumn(model, name, to, on_delete, kwargs) ==
    Key(model, name, ForeignKey(to, on_delete, kwargs), kwargs)

ReferenceFieldColumn(model, name, to, on_delete, kwargs) ==
    Key(model, name, ReferenceField(to, on_delete, kwargs), kwargs)

\* models.py:72  Meta is abstract: the column belongs to Resource, and a
\* ValueSet, a Resource by inheritance, carries it in its Resource row
Resource_security ==
    ForeignKeyColumn("Resource", "security", "Coding", "PROTECT", "blank" :> TRUE)
ValueSet_security ==
    ForeignKeyColumn("ValueSet", "security", "Coding", "PROTECT", "blank" :> TRUE)
\* models.py:154
ContactPoint_period ==
    ForeignKeyColumn("ContactPoint", "period", "Period", "PROTECT", "null" :> TRUE)
\* models.py:200
Identifier_type ==
    ForeignKeyColumn("Identifier", "type", "CodeableConcept", "SET_NULL", "null" :> TRUE)
\* models.py:215
Identifier_period ==
    ForeignKeyColumn("Identifier", "period", "Period", "SET_NULL", "null" :> TRUE)
\* models.py:217
Identifier_assigner ==
    ReferenceFieldColumn("Identifier", "assigner", "Organisation", "SET_NULL",
                         ("null" :> TRUE) @@ ("related_name" :> "asignee"))
\* as Reference.identifier, had it been declared with on_delete=DO_NOTHING
Reference_identifier_do_nothing ==
    ForeignKeyColumn("Reference", "identifier", "Identifier", "DO_NOTHING", "null" :> TRUE)
\* models.py:228
Reference_identifier ==
    ForeignKeyColumn("Reference", "identifier", "Identifier", "CASCADE", "null" :> TRUE)
\* models.py:259
ValueSet_contact ==
    ForeignKeyColumn("ValueSet", "contact", "ContactDetail", "SET_NULL", "null" :> TRUE)
\* models.py:331
Address_period ==
    ForeignKeyColumn("Address", "period", "Period", "SET_NULL", "null" :> TRUE)
\* models.py:386
Patient_photo ==
    ForeignKeyColumn("Patient", "photo", "Attachment", "SET_NULL", "null" :> TRUE)
\* models.py:390
Patient_generalPractitioner ==
    ReferenceFieldColumn("Patient", "generalPractitioner", "Organization|Practitioner",
                         "SET_NULL", "null" :> TRUE)
\* models.py:392
Patient_managingOrganisation ==
    ReferenceFieldColumn("Patient", "managingOrganisation", "class Organisation",
                         "SET_NULL", "null" :> TRUE)

Keys ==
    {Resource_security, ValueSet_security, ContactPoint_period, Identifier_type,
     Identifier_period, Identifier_assigner, Reference_identifier, ValueSet_contact,
     Address_period, Patient_photo, Patient_generalPractitioner,
     Patient_managingOrganisation}

\* the models that declare a foreign key or are pointed at by one
KeyedModels == {k.model : k \in Keys} \cup {k.to : k \in Keys}

KeysOf(model) == {k \in Keys : k.model = model}
ColumnsOf(model) == {k.name : k \in KeysOf(model)}

\* the stored records that point, through a key of the given policy, at one of
\* objs, each with the key
Referrers(st, objs, on_delete) ==
    {rk \in (DOMAIN st) \X Keys :
        /\ rk[2].model = rk[1][1]
        /\ rk[2].on_delete = on_delete
        /\ <<rk[2].to, st[rk[1]][rk[2].name]>> \in objs}

\* Collector.collect: the records to delete, with all that CASCADE reaches
RECURSIVE Collector_collect(_, _)
Collector_collect(st, objs) ==
    LET sub == {rk[1] : rk \in Referrers(st, objs, "CASCADE")}
    IN IF sub \subseteq objs THEN objs ELSE Collector_collect(st, objs \cup sub)

\* Model.delete(): collect; PROTECT raises before anything is written;
\* otherwise the SET_NULL keys are updated and the collected records removed
Model_delete(st, obj) ==
    LET objs == Collector_collect(st, {obj})
        protected == Referrers(st, objs, "PROTECT")
        updates == Referrers(st, objs, "SET_NULL")
    IN IF protected # {}
       THEN [error |-> "ProtectedError", store |-> st, deleted |-> {}, nulled |-> {}]
       ELSE [error |-> None,
             store |-> [r \in (DOMAIN st) \ objs |->
                          [n \in DOMAIN st[r] |->
                              IF \E rk \in updates : rk[1] = r /\ rk[2].name = n
                              THEN NullKey ELSE st[r][n]]],
             deleted |-> objs,
             nulled |-> {<<rk[1], rk[2].name>> : rk \in {u \in updates : u[1] \notin objs}}]

\* INSERT of a row: a NULL in a column that is not nullable, or a key without
\* a stored target, is refused by the table's constraints
Model_insert(st, model, pk, row) ==
    IF \E k \in KeysOf(model) :
          \/ row[k.name] = NullKey /\ ~k.null
          \/ row[k.name] # NullKey /\ <<k.to, row[k.name]>> \notin DOMAIN st
    THEN [error |-> "IntegrityError", store |-> st]
    ELSE [error |-> None, store |-> SetItem(st, <<model, pk>>, row)]

\* AutoField: the table gives a new row the lowest primary key not in use
NextKey(st, model) ==
    CHOOSE pk \in 1..MaxRows :
        /\ <<model, pk>> \notin DOMAIN st
        /\ \A q \in 1..(pk - 1) : <<model, q>> \in DOMAIN st

\* a record of one of the models is created, each of its keys None or a stored
\* record of the key's target
CreateRecord ==
    /\ Cardinality(DOMAIN store) < MaxRows
    /\ \E model \in KeyedModels :
        \E row \in [ColumnsOf(model) -> {NullKey} \cup (1..MaxRows)] :
            /\ \A k \in KeysOf(model) :
                  row[k.name] # NullKey => <<k.to, row[k.name]>> \in DOMAIN store
            /\ store' = Model_insert(store, model, NextKey(store, model), row).store
    /\ last_del' = NoDeletion
    /\ UNCHANGED ivars
    /\ UNCHANGED <<fvars, lvars, avars, rvars>>

\* record.delete() on a stored record
DeleteRecord ==
    /\ \E obj \in DOMAIN store :
        LET out == Model_delete(store, obj)
        IN /\ store' = out.store
           /\ last_del' = [outcome |-> IF out.error = None THEN "deleted" ELSE out.error,
                           model |-> obj[1], pk |-> obj[2],
                           deleted |-> Cardinality(out.deleted),
                           nulled |-> Cardinality(out.nulled)]
    /\ UNCHANGED ivars
    /\ UNCHANGED <<fvars, lvars, avars, rvars>>

NextDelete == CreateRecord \/ DeleteRecord

(***************************************************************************)
(* Specifications                                                          *)
(***************************************************************************)
\* SpecFields starts with the field of ValueSet.status declared
InitFields ==
    /\ field = ValueSet_status
    /\ call = Call("ValueSet.status", NoKwargs)
    /\ value = <<>>
    /\ errors = {}
    /\ cleaned = FALSE
    /\ text = <<>>
    /\ stored = Null
    /\ loaded = NotLoaded
    /\ phase = "idle"
    /\ pc = "start"
    /\ id_fields = [versionId |-> None, id |-> None]
    /\ admin_pc = 0
    /\ registry = <<>>
    /\ db = <<>>
    /\ saved_at = <<>>
    /\ now = 0
    /\ created_log = <<>>
    /\ last_op = None
    /\ last_error = None
    /\ refs = <<>>
    /\ instance = [pk |-> NoPk, adding |-> TRUE, references |-> <<>>, display |-> <<>>]
    /\ exclude = {}
    /\ raised = None
    /\ rphase = "idle"
    /\ idents = <<>>
    /\ iresult = None
    /\ store = <<>>
    /\ last_del = NoDeletion

SpecFields == InitFields /\ [][NextFields]_vars

\* SpecLoad starts with a text and a column value stored for it
InitLoad ==
    /\ field = ValueSet_status
    /\ call = Call("ValueSet.status", NoKwargs)
    /\ value = <<>>
    /\ errors = {}
    /\ cleaned = FALSE
    /\ text \in Texts
    /\ stored \in StoredFor(text)
    /\ loaded = NotLoaded
    /\ phase = "stored"
    /\ pc = "start"
    /\ id_fields = [versionId |-> None, id |-> None]
    /\ admin_pc = 0
    /\ registry = <<>>
    /\ db = <<>>
    /\ saved_at = <<>>
    /\ now = 0
    /\ created_log = <<>>
    /\ last_op = None
    /\ last_error = None
    /\ refs = <<>>
    /\ instance = [pk |-> NoPk, adding |-> TRUE, references |-> <<>>, display |-> <<>>]
    /\ exclude = {}
    /\ raised = None
    /\ rphase = "idle"
    /\ idents = <<>>
    /\ iresult = None
    /\ store = <<>>
    /\ last_del = NoDeletion

SpecLoad == InitLoad /\ [][NextLoad]_vars

\* SpecRefs starts with an empty Reference table
InitRefs ==
    /\ field = ValueSet_status
    /\ call = Call("ValueSet.status", NoKwargs)
    /\ value = <<>>
    /\ errors = {}
    /\ cleaned = FALSE
    /\ text = <<>>
    /\ stored = Null
    /\ loaded = NotLoaded
    /\ phase = "idle"
    /\ pc = "start"
    /\ id_fields = [versionId |-> None, id |-> None]
    /\ admin_pc = 0
    /\ registry = <<>>
    /\ db = <<>>
    /\ saved_at = <<>>
    /\ now = 0
    /\ created_log = <<>>
    /\ last_op = None
    /\ last_error = None
    /\ refs = <<>>
    /\ instance = [pk |-> NoPk, adding |-> TRUE, references |-> <<>>, display |-> <<>>]
    /\ exclude = {}
    /\ raised = None
    /\ rphase = "idle"
    /\ idents = <<>>
    /\ iresult = None
    /\ store = <<>>
    /\ last_del = NoDeletion

SpecRefs == InitRefs /\ [][NextRefs]_vars

\* SpecIdent starts with an empty Identifier table
InitIdent ==
    /\ field = ValueSet_status
    /\ call = Call("ValueSet.status", NoKwargs)
    /\ value = <<>>
    /\ errors = {}
    /\ cleaned = FALSE
    /\ text = <<>>
    /\ stored = Null
    /\ loaded = NotLoaded
    /\ phase = "idle"
    /\ pc = "start"
    /\ id_fields = [versionId |-> None, id |-> None]
    /\ admin_pc = 0
    /\ registry = <<>>
    /\ db = <<>>
    /\ saved_at = <<>>
    /\ now = 0
    /\ created_log = <<>>
    /\ last_op = None
    /\ last_error = None
    /\ refs = <<>>
    /\ instance = [pk |-> NoPk, adding |-> TRUE, references |-> <<>>, display |-> <<>>]
    /\ exclude = {}
    /\ raised = None
    /\ rphase = "idle"
    /\ idents = <<>>
    /\ iresult = None
    /\ store = <<>>
    /\ last_del = NoDeletion

SpecIdent == InitIdent /\ [][NextIdent]_vars

\* SpecDelete starts with every table empty
InitDelete ==
    /\ field = ValueSet_status
    /\ call = Call("ValueSet.status", NoKwargs)
    /\ value = <<>>
    /\ errors = {}
    /\ cleaned = FALSE
    /\ text = <<>>
    /\ stored = Null
    /\ loaded = NotLoaded
    /\ phase = "idle"
    /\ pc = "start"
    /\ id_fields = [versionId |-> None, id |-> None]
    /\ admin_pc = 0
    /\ registry = <<>>
    /\ db = <<>>
    /\ saved_at = <<>>
    /\ now = 0
    /\ created_log = <<>>
    /\ last_op = None
    /\ last_error = None
    /\ refs = <<>>
    /\ instance = [pk |-> NoPk, adding |-> TRUE, references |-> <<>>, display |-> <<>>]
    /\ exclude = {}
    /\ raised = None
    /\ rphase = "idle"
    /\ idents = <<>>
    /\ iresult = None
    /\ store = <<>>
    /\ last_del = NoDeletion

SpecDelete == InitDelete /\ [][NextDelete]_vars

\* Spec starts before models.py is imported
Init ==
    /\ field = ValueSet_status
    /\ call = Call("ValueSet.status", NoKwargs)
    /\ value = <<>>
    /\ errors = {}
    /\ cleaned = FALSE
    /\ text = <<>>
    /\ stored = Null
    /\ loaded = NotLoaded
    /\ phase = "idle"
    /\ pc = "start"
    /\ id_fields = [versionId |-> None, id |-> None]
    /\ admin_pc = 0
    /\ registry = <<>>
    /\ db = <<>>
    /\ saved_at = <<>>
    /\ now = 0
    /\ created_log = <<>>
    /\ last_op = None
    /\ last_error = None
    /\ refs = <<>>
    /\ instance = [pk |-> NoPk, adding |-> TRUE, references |-> <<>>, display |-> <<>>]
    /\ exclude = {}
    /\ raised = None
    /\ rphase = "idle"
    /\ idents = <<>>
    /\ iresult = None
    /\ store = <<>>
    /\ last_del = NoDeletion

Spec == Init /\ [][Next]_vars

(***************************************************************************)
(* Claims on start-up and on stored records                                *)
(***************************************************************************)
\* C2: two records created without supplying an IdField carry different
\* default values in that field
C2_DefaultsAreFresh ==
    \A i \in DOMAIN created_log, j \in DOMAIN created_log :
        i # j =>
            /\ ("id" \in created_log[i].omitted /\ "id" \in created_log[j].omitted)
                  => created_log[i].id # created_log[j].id
            /\ ("versionId" \in created_log[i].omitted /\ "versionId" \in created_log[j].omitted)
                  => created_log[i].versionId # created_log[j].versionId

TenModels ==
    {"Resource", "DomainResource", "Coding", "Period", "StructureDefinition",
     "Identifier", "ValueSet", "ContactDetail", "ContactPoint", "Extension"}

\* C8: once the admin module is loaded, exactly the ten model types are
\* registered, each by one registration and with the default admin class
C8_TenModelsRegistered ==
    pc = "ready" =>
        /\ DOMAIN registry = TenModels
        /\ Cardinality(DOMAIN registry) = admin_pc
        /\ admin_pc = Len(AdminRegistrations)
        /\ \A m \in DOMAIN registry : registry[m] = "ModelAdmin"
        /\ last_op = None => last_error = None

C8_Witness ==
    /\ pc = "ready"
    /\ Cardinality(DOMAIN registry) = Cardinality(TenModels)
    /\ {"Patient", "Organisation", "Reference"} \cap DOMAIN registry = {}

\* C9: a stored resource's lastUpdated is the time of its most recent save
C9_LastUpdatedIsLastSave ==
    \A v \in DOMAIN db : db[v].lastUpdated = saved_at[v]

\* C9: a save never moves lastUpdated back, and an update leaves created as
\* it was
C9_SaveStep ==
    \A v \in DOMAIN db :
        /\ v \in DOMAIN db'
        /\ db'[v].lastUpdated >= db[v].lastUpdated
        /\ last_op' = "update" => db'[v].created = db[v].created

C10_ValidateUniqueIsNoOp ==
    [][(rphase = "pending" /\ rphase' = "validated")
         => (raised' = None /\ instance' = instance /\ refs' = refs)]_vars

\* validate_unique has run on a record being added under the key of a stored
\* row whose field values it repeats
C10_Witness ==
    /\ rphase = "validated"
    /\ raised = None
    /\ instance.adding
    /\ instance.pk \in DOMAIN refs
    /\ refs[instance.pk].references = instance.references
    /\ refs[instance.pk].display = instance.display
    /\ instance.references # <<>>

(***************************************************************************)
(* Claims on the Identifier table and on deletion                          *)
(***************************************************************************)
\* C11: no two stored Identifier records have the same system and the same
\* value
C11_IdentifiersUniqueInSystem ==
    \A i \in DOMAIN idents, j \in DOMAIN idents :
        i # j =>
            ~ /\ Identifier_getattr(idents, i, "system") = Identifier_getattr(idents, j, "system")
              /\ Identifier_getattr(idents, i, "value") = Identifier_getattr(idents, j, "value")

\* the keys by policy, each with the model declaring it, its name and the
\* model of the records it points at
ProtectKeys ==
    {<<"ContactPoint", "period", "Period">>, <<"Resource", "security", "Coding">>,
     <<"ValueSet", "security", "Coding">>}
CascadeKeys == {<<"Reference", "identifier", "Identifier">>}
SetNullKeys ==
    {<<"Identifier", "type", "CodeableConcept">>, <<"Identifier", "period", "Period">>,
     <<"Identifier", "assigner", "Reference">>, <<"ValueSet", "contact", "ContactDetail">>,
     <<"Address", "period", "Period">>, <<"Patient", "photo", "Attachment">>,
     <<"Patient", "generalPractitioner", "Reference">>,
     <<"Patient", "managingOrganisation", "Reference">>}

\* record r of table st points at record t through key
PointsAt(st, r, key, t) ==
    /\ r[1] = key[1]
    /\ t[1] = key[3]
    /\ st[r][key[2]] = t[2]

\* no stored key points at a record that is not stored
NoDanglingKey ==
    \A r \in DOMAIN store : \A k \in Keys :
        (k.model = r[1] /\ store[r][k.name] # NullKey)
            => <<k.to, store[r][k.name]>> \in DOMAIN store

\* a deletion called on a record that a PROTECT key points at is refused and
\* changes nothing
ProtectRefuses(t) ==
    (\E r \in DOMAIN store, k \in ProtectKeys : PointsAt(store, r, k, t))
        => /\ last_del'.outcome = "ProtectedError"
           /\ store' = store

\* a deletion that is carried out removes its record, removes every Reference
\* whose identifier the record is, and leaves every record that points at it
\* through a SET_NULL key stored, with that key NULL and its other keys as
\* they were
DeletionCarriedOut(t) ==
    last_del'.outcome = "deleted" =>
        /\ t \notin DOMAIN store'
        /\ \A r \in DOMAIN store, k \in CascadeKeys :
              PointsAt(store, r, k, t) => r \notin DOMAIN store'
        /\ \A r \in DOMAIN store, k \in SetNullKeys :
              PointsAt(store, r, k, t) =>
                  /\ r \in DOMAIN store'
                  /\ DOMAIN store'[r] = DOMAIN store[r]
                  /\ \A n \in DOMAIN store[r] :
                        store'[r][n] =
                            IF \E k2 \in SetNullKeys : k2[2] = n /\ PointsAt(store, r, k2, t)
                            THEN NullKey ELSE store[r][n]

\* a step that deletes: the deletion is of a stored record and is either
\* refused or carried out as its keys' policies say
C13_DeleteStep ==
    last_del'.outcome # "none" =>
        LET t == <<last_del'.model, last_del'.pk>>
        IN /\ t \in DOMAIN store
           /\ last_del'.outcome \in {"deleted", "ProtectedError"}
           /\ ProtectRefuses(t)
           /\ DeletionCarriedOut(t)
           /\ (last_del'.outcome = "ProtectedError") =>
                 \E r \in DOMAIN store, k \in ProtectKeys : PointsAt(store, r, k, t)

\* C13: after any creations and deletions no stored key points at a record
\* that is not stored; deleting a record a PROTECT key points at is refused
\* and changes nothing; a deletion that is carried out removes the References
\* of a deleted Identifier and sets the SET_NULL keys pointing at the deleted
\* record to NULL, the referring records otherwise unchanged and still stored
C13_NoDanglingKeys == []NoDanglingKey /\ [][C13_DeleteStep]_vars

\* an Identifier was deleted, a Reference went with it, and a key of a record
\* still stored was set to NULL
C13_Witness ==
    /\ last_del.outcome = "deleted"
    /\ last_del.model = "Identifier"
    /\ last_del.deleted > 1
    /\ last_del.nulled > 0
    /\ DOMAIN store # {}

\* a deletion was refused because of a PROTECT key
ProtectedSeen ==
    /\ last_del.outcome = "ProtectedError"
    /\ last_del.model \in {"Period", "Coding"}

\* a Period was deleted and a key pointing at it is now NULL in a stored record
SetNullSeen ==
    /\ last_del.outcome = "deleted"
    /\ last_del.model = "Period"
    /\ last_del.nulled > 0

====
